---------------------------- MODULE Spec2Model ----------------------------
(***************************************************************************)
(* index_importer/main.py: reconciliation of an index file against a       *)
(* BeaverDB collection (run_import) and the layered configuration of the   *)
(* command line (main).                                                    *)
(*                                                                         *)
(* Python values are written as strings: None is "None", the empty list    *)
(* is "[]", a vector is "[0.1]"; a dict is a function over its keys.       *)
(***************************************************************************)
EXTENDS Integers, Sequences, FiniteSets, TLC

VARIABLES
    config,            \* the dict run_import receives / main builds
    disk,              \* the index file on disk: [status, records]
    coll,              \* the persisted collection: key -> Document
    pc,                \* position in run_import / main
    run,               \* "first" or "second" invocation of the program
    index_data,        \* run_import local
    todo,              \* documents the rebuild loop has still to visit
    db_ids,            \* run_import local
    index_ids,         \* run_import local
    i,                 \* position of the for loop over index_data (1-based)
    inserted_count, updated_count, skipped_count, removed_count,
    ids_to_drop,       \* keys the sync loop has still to drop
    final_db_ids,      \* run_import local (sync)
    sync_msg,          \* outcome of the consistency check, as logged
    summary,           \* the numbers of the "Summary:" / "Total" log lines
    calls,             \* the calls made on the collection during this run
    startColl,         \* history: the collection when this run began
    prev,              \* history: how the first run ended
    argv,              \* main: the flags given on the command line
    yaml_disk,         \* main: the YAML file on disk: [status, content]
    args               \* main: the argparse namespace

vars == <<config, disk, coll, pc, run, index_data, todo, db_ids, index_ids, i,
          inserted_count, updated_count, skipped_count, removed_count,
          ids_to_drop, final_db_ids, sync_msg, summary, calls, startColl,
          prev, argv, yaml_disk, args>>

runLocals == <<index_data, todo, db_ids, index_ids, i, inserted_count,
               updated_count, skipped_count, removed_count, ids_to_drop,
               final_db_ids, sync_msg, summary>>

mainVars == <<argv, yaml_disk, args>>

-----------------------------------------------------------------------------
(* Bounds *)

MaxLen == 3

NumKeys == 2

-----------------------------------------------------------------------------
(* Python values *)

None == "None"

EmptyDict == << >>

\* dict.get(k, default)
Get(d, k, default) == IF k \in DOMAIN d THEN d[k] ELSE default

\* `not x` for the values that occur: None, "", [] and {} are falsy
Falsy(x) == x \in {None, "", "[]", "{}"}

\* dict.update
Update(d, e) ==
    [k \in DOMAIN d \cup DOMAIN e |-> IF k \in DOMAIN e THEN e[k] ELSE d[k]]

DEFAULT_CONFIG == [collection |-> "images", mode |-> "upsert"]

Modes == {"upsert", "rebuild", "insert-only", "update-only", "sync"}

-----------------------------------------------------------------------------
(* Input universe *)

KeyNames == <<"a.png", "b.png", "c.png", "d.png">>

Keys == {KeyNames[n] : n \in 1..NumKeys}

ValidItems ==
    {[vector |-> "[0.1]", metadata |-> [path |-> k]] : k \in Keys}
    \cup {[vector |-> "[0.9]", metadata |-> [path |-> KeyNames[1], label |-> "cat"]]}

InvalidItems ==
    { [metadata |-> [path |-> KeyNames[1]]],                   \* no vector
      [vector |-> "[]", metadata |-> [path |-> KeyNames[2]]],  \* empty vector
      [vector |-> "[0.1]"],                                    \* no metadata
      [vector |-> "[0.1]", metadata |-> [path |-> ""]] }       \* empty path

Items == ValidItems \cup InvalidItems

SeqsUpTo(S, n) == UNION {[1..m -> S] : m \in 0..n}

\* a document some earlier tool left in the collection, with its own metadata
OldDoc(k) ==
    [id |-> k, embedding |-> "[0.0]", metadata |-> [path |-> k, note |-> "custom"]]

CollInputs == {[k \in S |-> OldDoc(k)] : S \in SUBSET Keys}

\* the suffix str.endswith tests, for the paths that occur
Suffix(path) ==
    CASE path = "idx.jsonl"  -> ".jsonl"
      [] path = "alt.jsonl"  -> ".jsonl"
      [] path = "idx.pkl"    -> ".pkl"
      [] path = "idx.pickle" -> ".pickle"
      [] OTHER               -> ""

FullConfig(index_file, m) ==
    [index_file |-> index_file, db_file |-> "beaver.db",
     collection |-> "images", mode |-> m]

\* well-formed runs: every record sequence, every mode
NormalInputs ==
    {[config |-> FullConfig("idx.jsonl", m), disk |-> [status |-> "ok", records |-> s]] :
        m \in Modes, s \in SeqsUpTo(Items, MaxLen)}

\* the other container format, unsupported suffixes, unreadable files and
\* incomplete configurations, over short files
EdgeConfigs(m) ==
    { FullConfig("idx.pkl", m), FullConfig("idx.pickle", m), FullConfig("idx.csv", m),
      FullConfig("", m),
      [db_file |-> "beaver.db", collection |-> "images", mode |-> m],
      [index_file |-> "idx.jsonl", collection |-> "images", mode |-> m],
      [index_file |-> "idx.jsonl", db_file |-> "", collection |-> "images", mode |-> m],
      [index_file |-> "idx.jsonl", db_file |-> "beaver.db", collection |-> "images"] }

EdgeInputs ==
    {[config |-> c, disk |-> [status |-> st, records |-> s]] :
        c \in UNION {EdgeConfigs(m) : m \in Modes},
        st \in {"ok", "missing", "corrupt"},
        s \in SeqsUpTo(ValidItems, 1)}
    \cup
    {[config |-> FullConfig("idx.jsonl", m), disk |-> [status |-> st, records |-> s]] :
        m \in Modes, st \in {"missing", "corrupt"}, s \in SeqsUpTo(ValidItems, 1)}

Inputs == NormalInputs \cup EdgeInputs

-----------------------------------------------------------------------------
(* load_index_data *)

load_index_data(file_path, d) ==
    IF Suffix(file_path) = ".jsonl" \/ Suffix(file_path) \in {".pkl", ".pickle"}
    THEN IF d.status = "ok" THEN d.records ELSE << >>
    ELSE << >>

-----------------------------------------------------------------------------
(* The collection client as run_import uses it *)

Index(c, doc) ==
    [k \in DOMAIN c \cup {doc.id} |-> IF k = doc.id THEN doc ELSE c[k]]

Drop_Ignored(c, k) == c

Drop(c, k) == [j \in DOMAIN c \ {k} |-> c[j]]

Ids(c) == DOMAIN c

-----------------------------------------------------------------------------
(* run_import: the decisions it takes *)

\* line 65
ModeOf(cfg) == Get(cfg, "mode", DEFAULT_CONFIG.mode)

Mode == ModeOf(config)

ConfigUsable_Unchecked(cfg) == TRUE

\* line 67, negated
ConfigUsable(cfg) ==
    ~(Falsy(Get(cfg, "index_file", None)) \/ Falsy(Get(cfg, "db_file", None)))

Snapshot_Empty(m, c) == {}

\* lines 88-91
Snapshot(m, c) ==
    IF m \in {"insert-only", "update-only", "sync", "upsert"} THEN Ids(c) ELSE {}

VectorOf(item) == Get(item, "vector", None)

MetadataOf(item) == Get(item, "metadata", EmptyDict)

DocIdOf(item) == Get(MetadataOf(item), "path", None)

Skippable_PathOnly(item) == Falsy(DocIdOf(item))

\* line 107
Skippable(item) == Falsy(VectorOf(item)) \/ Falsy(DocIdOf(item))

\* lines 115-136: which counter a valid record increments
CountsAs(m, doc_exists) ==
    CASE m \in {"upsert", "sync"} -> IF doc_exists THEN "updated" ELSE "inserted"
      [] m = "insert-only"        -> IF doc_exists THEN "skipped" ELSE "inserted"
      [] m = "update-only"        -> IF doc_exists THEN "updated" ELSE "skipped"
      [] OTHER                    -> "none"

ShouldIndex_Always(m, doc_exists) == TRUE

\* lines 115-136: should_index
ShouldIndex(m, doc_exists) ==
    CASE m \in {"upsert", "sync"} -> TRUE
      [] m = "insert-only"        -> ~doc_exists
      [] m = "update-only"        -> doc_exists
      [] m = "rebuild"            -> TRUE
      [] OTHER                    -> FALSE

\* line 139
Document(doc_id, vector, metadata) ==
    [id |-> doc_id, embedding |-> vector, metadata |-> metadata]

IdsToDrop_None(dbIds, indexIds) == {}

\* line 143
IdsToDrop(dbIds, indexIds) == dbIds \ indexIds

NeedsCompact_Always(removed) == TRUE

\* line 153
NeedsCompact(removed) == removed > 0

\* lines 157-160
SyncMessage(finalIds, indexIds) ==
    IF Cardinality(finalIds) = Cardinality(indexIds) THEN "successful" ELSE "mismatch"

\* lines 165-180: the numbers the summary lines print
Summary(m, total) ==
    CASE m = "rebuild"     -> [total |-> total]
      [] m = "upsert"      -> [inserted |-> inserted_count, updated |-> updated_count,
                               skipped |-> skipped_count, total |-> total]
      [] m = "insert-only" -> [inserted |-> inserted_count, skipped |-> skipped_count,
                               total |-> total]
      [] m = "update-only" -> [updated |-> updated_count, skipped |-> skipped_count,
                               total |-> total]
      [] m = "sync"        ->
            [inserted |-> Cardinality((final_db_ids \cap index_ids)
                                      \ (db_ids \cap index_ids)),
             updated  |-> Cardinality(db_ids \cap index_ids),
             removed  |-> removed_count,
             total    |-> total]
      [] OTHER             -> EmptyDict

-----------------------------------------------------------------------------
(* run_import: its steps *)

FreshLocals ==
    /\ index_data = << >>
    /\ todo = {}
    /\ db_ids = {}
    /\ index_ids = {}
    /\ i = 1
    /\ inserted_count = 0
    /\ updated_count = 0
    /\ skipped_count = 0
    /\ removed_count = 0
    /\ ids_to_drop = {}
    /\ final_db_ids = {}
    /\ sync_msg = ""
    /\ summary = EmptyDict

NoPrev == [pc |-> "none", coll |-> EmptyDict, summary |-> EmptyDict]

Init ==
    /\ \E inp \in Inputs : config = inp.config /\ disk = inp.disk
    /\ coll \in CollInputs
    /\ startColl = coll
    /\ pc = "start"
    /\ run = "first"
    /\ calls = << >>
    /\ prev = NoPrev
    /\ FreshLocals
    /\ argv = EmptyDict
    /\ yaml_disk = [status |-> "missing", content |-> EmptyDict]
    /\ args = EmptyDict

\* lines 62-69
CheckConfig ==
    /\ pc = "start"
    /\ pc' = IF ConfigUsable(config) THEN "load" ELSE "aborted"
    /\ UNCHANGED <<config, disk, coll, run, runLocals, calls, startColl, prev, mainVars>>

\* lines 71-77
LoadIndex ==
    /\ pc = "load"
    /\ index_data' = load_index_data(Get(config, "index_file", None), disk)
    /\ pc' = IF index_data' = << >> THEN "aborted"
             ELSE IF Mode = "rebuild" THEN "rebuild" ELSE "snapshot"
    /\ UNCHANGED <<config, disk, coll, run, todo, db_ids, index_ids, i, inserted_count,
                   updated_count, skipped_count, removed_count, ids_to_drop,
                   final_db_ids, sync_msg, summary, calls, startColl, prev, mainVars>>

\* lines 79-82: the iteration over the collection begins
RebuildIter ==
    /\ pc = "rebuild"
    /\ todo' = Ids(coll)
    /\ calls' = Append(calls, "iter")
    /\ pc' = "rebuild_drop"
    /\ UNCHANGED <<config, disk, coll, run, index_data, db_ids, index_ids, i,
                   inserted_count, updated_count, skipped_count, removed_count,
                   ids_to_drop, final_db_ids, sync_msg, summary, startColl, prev, mainVars>>

\* lines 82-84: one pass of the loop
RebuildDrop ==
    /\ pc = "rebuild_drop"
    /\ \E k \in todo :
        /\ coll' = Drop(coll, k)
        /\ todo' = todo \ {k}
    /\ calls' = Append(calls, "drop")
    /\ UNCHANGED <<config, disk, pc, run, index_data, db_ids, index_ids, i,
                   inserted_count, updated_count, skipped_count, removed_count,
                   ids_to_drop, final_db_ids, sync_msg, summary, startColl, prev, mainVars>>

\* lines 85-86
RebuildCompact ==
    /\ pc = "rebuild_drop"
    /\ todo = {}
    /\ calls' = Append(calls, "compact")
    /\ pc' = "snapshot"
    /\ UNCHANGED <<config, disk, coll, run, runLocals, startColl, prev, mainVars>>

\* lines 88-100
TakeSnapshot ==
    /\ pc = "snapshot"
    /\ db_ids' = Snapshot(Mode, coll)
    /\ calls' = IF Mode \in {"insert-only", "update-only", "sync", "upsert"}
                THEN Append(calls, "iter") ELSE calls
    /\ index_ids' = {}
    /\ inserted_count' = 0
    /\ updated_count' = 0
    /\ skipped_count' = 0
    /\ i' = 1
    /\ pc' = "loop"
    /\ UNCHANGED <<config, disk, coll, run, index_data, todo, removed_count, ids_to_drop,
                   final_db_ids, sync_msg, summary, startColl, prev, mainVars>>

\* lines 102-140: one pass of the loop
ProcessItem ==
    /\ pc = "loop"
    /\ i <= Len(index_data)
    /\ LET item == index_data[i]
           vector == VectorOf(item)
           metadata == MetadataOf(item)
           doc_id == DocIdOf(item)
           doc_exists == doc_id \in db_ids
           counts == CountsAs(Mode, doc_exists)
       IN IF Skippable(item)
          THEN /\ skipped_count' = skipped_count + 1
               /\ UNCHANGED <<index_ids, inserted_count, updated_count, coll, calls>>
          ELSE /\ index_ids' = index_ids \cup {doc_id}
               /\ inserted_count' = inserted_count + IF counts = "inserted" THEN 1 ELSE 0
               /\ updated_count' = updated_count + IF counts = "updated" THEN 1 ELSE 0
               /\ skipped_count' = skipped_count + IF counts = "skipped" THEN 1 ELSE 0
               /\ IF ShouldIndex(Mode, doc_exists)
                  THEN /\ coll' = Index(coll, Document(doc_id, vector, metadata))
                       /\ calls' = Append(calls, "index")
                  ELSE UNCHANGED <<coll, calls>>
    /\ i' = i + 1
    /\ UNCHANGED <<config, disk, pc, run, index_data, todo, db_ids, removed_count,
                   ids_to_drop, final_db_ids, sync_msg, summary, startColl, prev, mainVars>>

\* lines 142-146
SyncBegin ==
    /\ pc = "loop"
    /\ i > Len(index_data)
    /\ Mode = "sync"
    /\ ids_to_drop' = IdsToDrop(db_ids, index_ids)
    /\ removed_count' = 0
    /\ pc' = "sync_drop"
    /\ UNCHANGED <<config, disk, coll, run, index_data, todo, db_ids, index_ids, i,
                   inserted_count, updated_count, skipped_count, final_db_ids,
                   sync_msg, summary, calls, startColl, prev, mainVars>>

\* lines 147-149: one pass of the loop
SyncDrop ==
    /\ pc = "sync_drop"
    /\ \E k \in ids_to_drop :
        /\ coll' = Drop(coll, k)
        /\ ids_to_drop' = ids_to_drop \ {k}
    /\ removed_count' = removed_count + 1
    /\ calls' = Append(calls, "drop")
    /\ UNCHANGED <<config, disk, pc, run, index_data, todo, db_ids, index_ids, i,
                   inserted_count, updated_count, skipped_count, final_db_ids,
                   sync_msg, summary, startColl, prev, mainVars>>

\* line 151
SyncReadFinal ==
    /\ pc = "sync_drop"
    /\ ids_to_drop = {}
    /\ final_db_ids' = Ids(coll)
    /\ calls' = Append(calls, "iter")
    /\ pc' = "sync_compact"
    /\ UNCHANGED <<config, disk, coll, run, index_data, todo, db_ids, index_ids, i,
                   inserted_count, updated_count, skipped_count, removed_count,
                   ids_to_drop, sync_msg, summary, startColl, prev, mainVars>>

\* lines 153-160
SyncCompact ==
    /\ pc = "sync_compact"
    /\ calls' = IF NeedsCompact(removed_count) THEN Append(calls, "compact") ELSE calls
    /\ sync_msg' = SyncMessage(final_db_ids, index_ids)
    /\ pc' = "finish"
    /\ UNCHANGED <<config, disk, coll, run, index_data, todo, db_ids, index_ids, i,
                   inserted_count, updated_count, skipped_count, removed_count,
                   ids_to_drop, final_db_ids, summary, startColl, prev, mainVars>>

\* lines 162-182
Finish ==
    /\ \/ pc = "finish"
       \/ pc = "loop" /\ i > Len(index_data) /\ Mode # "sync"
    /\ calls' = Append(calls, "len")
    /\ summary' = Summary(Mode, Cardinality(Ids(coll)))
    /\ pc' = "done"
    /\ UNCHANGED <<config, disk, coll, run, index_data, todo, db_ids, index_ids, i,
                   inserted_count, updated_count, skipped_count, removed_count,
                   ids_to_drop, final_db_ids, sync_msg, startColl, prev, mainVars>>

\* the same command is run a second time, the index file unchanged
Rerun ==
    /\ pc \in {"done", "aborted"}
    /\ run = "first"
    /\ run' = "second"
    /\ prev' = [pc |-> pc, coll |-> coll, summary |-> summary]
    /\ startColl' = coll
    /\ calls' = << >>
    /\ pc' = "start"
    /\ index_data' = << >>
    /\ todo' = {}
    /\ db_ids' = {}
    /\ index_ids' = {}
    /\ i' = 1
    /\ inserted_count' = 0
    /\ updated_count' = 0
    /\ skipped_count' = 0
    /\ removed_count' = 0
    /\ ids_to_drop' = {}
    /\ final_db_ids' = {}
    /\ sync_msg' = ""
    /\ summary' = EmptyDict
    /\ UNCHANGED <<config, disk, coll, mainVars>>

Next ==
    \/ CheckConfig
    \/ LoadIndex
    \/ RebuildIter
    \/ RebuildDrop
    \/ RebuildCompact
    \/ TakeSnapshot
    \/ ProcessItem
    \/ SyncBegin
    \/ SyncDrop
    \/ SyncReadFinal
    \/ SyncCompact
    \/ Finish
    \/ Rerun

Spec == Init /\ [][Next]_vars

-----------------------------------------------------------------------------
(* main: the command line, the YAML file and the defaults *)

Settings == {"index_file", "db_file", "collection", "mode"}

Flags == Settings \cup {"config"}

\* lines 191-201: parser.get_default(dest)
ParserDefault(k) == IF k = "mode" THEN DEFAULT_CONFIG.mode ELSE None

\* line 203: the namespace parse_args builds from the flags given
ParseArgs(given) == [k \in Flags |-> Get(given, k, ParserDefault(k))]

\* lines 20-32
load_yaml_config(config_path, y) ==
    IF Falsy(config_path) THEN EmptyDict
    ELSE IF y.status = "ok" THEN y.content ELSE EmptyDict

\* line 211
CliArgsProvided(a) ==
    [k \in {f \in DOMAIN a : a[f] # None /\ a[f] # ParserDefault(f)} |-> a[k]]

\* what the flags given on the command line can be
ArgvInputs ==
    { g \in UNION {[S -> {"cfg.yaml", "idx.jsonl", "beaver.db", "images", "photos"}
                         \cup Modes] : S \in SUBSET Flags} :
        /\ "config" \in DOMAIN g => g["config"] = "cfg.yaml"
        /\ "index_file" \in DOMAIN g => g["index_file"] = "idx.jsonl"
        /\ "db_file" \in DOMAIN g => g["db_file"] = "beaver.db"
        /\ "collection" \in DOMAIN g => g["collection"] \in {"images", "photos"}
        /\ "mode" \in DOMAIN g => g["mode"] \in Modes }

\* what the YAML file can hold
YamlContents ==
    { y \in UNION {[S -> {"alt.jsonl", "other.db", "docs"} \cup Modes] :
                      S \in SUBSET Settings} :
        /\ "index_file" \in DOMAIN y => y["index_file"] = "alt.jsonl"
        /\ "db_file" \in DOMAIN y => y["db_file"] = "other.db"
        /\ "collection" \in DOMAIN y => y["collection"] = "docs"
        /\ "mode" \in DOMAIN y => y["mode"] \in Modes }

YamlInputs ==
    {[status |-> "ok", content |-> y] : y \in YamlContents}
    \cup {[status |-> "missing", content |-> EmptyDict],
          [status |-> "invalid", content |-> EmptyDict]}

InitMain ==
    /\ argv \in ArgvInputs
    /\ yaml_disk \in YamlInputs
    /\ args = EmptyDict
    /\ config = EmptyDict
    /\ pc = "main"
    /\ run = "first"
    /\ disk = [status |-> "ok", records |-> << >>]
    /\ coll = EmptyDict
    /\ startColl = EmptyDict
    /\ calls = << >>
    /\ prev = NoPrev
    /\ FreshLocals

mainFrame == <<disk, coll, run, runLocals, calls, startColl, prev, argv, yaml_disk>>

\* lines 186-205
MainParse ==
    /\ pc = "main"
    /\ args' = ParseArgs(argv)
    /\ config' = DEFAULT_CONFIG
    /\ pc' = "main_yaml"
    /\ UNCHANGED mainFrame

\* lines 207-209
MainMergeYaml ==
    /\ pc = "main_yaml"
    /\ config' = IF ~Falsy(args["config"])
                 THEN Update(config, load_yaml_config(args["config"], yaml_disk))
                 ELSE config
    /\ pc' = "main_cli"
    /\ UNCHANGED <<mainFrame, args>>

\* lines 211-213
MainMergeCli ==
    /\ pc = "main_cli"
    /\ config' = Update(config, CliArgsProvided(args))
    /\ pc' = "main_call"
    /\ UNCHANGED <<mainFrame, args>>

\* line 215: run_import(config) is entered
MainCall ==
    /\ pc = "main_call"
    /\ pc' = "start"
    /\ UNCHANGED <<mainFrame, args, config>>

NextMain ==
    \/ MainParse
    \/ MainMergeYaml
    \/ MainMergeCli
    \/ MainCall

SpecMain == InitMain /\ [][NextMain]_vars

-----------------------------------------------------------------------------
(* Vocabulary of the properties, stated on the index file itself *)

\* the records of the index file
R == disk.records

\* a record that has both a vector and a path
HasBoth(item) ==
    /\ "vector" \in DOMAIN item
    /\ item["vector"] \notin {None, "[]"}
    /\ "metadata" \in DOMAIN item
    /\ "path" \in DOMAIN item["metadata"]
    /\ item["metadata"]["path"] \notin {None, ""}

ValidIdx(n) == {j \in 1..n : HasBoth(R[j])}

InvalidIdx(n) == (1..n) \ ValidIdx(n)

KeyAt(j) == R[j]["metadata"]["path"]

ValidKeys == {KeyAt(j) : j \in ValidIdx(Len(R))}

\* the document the last valid record keyed k describes
LastDoc(k) ==
    LET js == {j \in ValidIdx(Len(R)) : KeyAt(j) = k}
        last == CHOOSE j \in js : \A h \in js : h <= j
    IN [id |-> k, embedding |-> R[last]["vector"], metadata |-> R[last]["metadata"]]

\* how many records the loop has been through
Processed == i - 1

InLoopOrAfter == pc \in {"loop", "sync_drop", "sync_compact", "finish", "done"}

Pos(op) == {n \in 1..Len(calls) : calls[n] = op}

LastPos(op) == CHOOSE n \in Pos(op) : \A m \in Pos(op) : m <= n

\* the input makes the run fatal: incomplete configuration, or a file that is
\* empty, unreadable or of an unsupported format
FatalInput ==
    \/ Falsy(Get(config, "index_file", None))
    \/ Falsy(Get(config, "db_file", None))
    \/ Suffix(Get(config, "index_file", None)) \notin {".jsonl", ".pkl", ".pickle"}
    \/ disk.status # "ok"
    \/ R = << >>

-----------------------------------------------------------------------------
(* C1: after a sync run has completed, the collection's key set is exactly *)
(* the set of keys of the valid records of the index file, and the removed *)
(* count reported is the number of initial keys that are not among them.   *)
Thm_C1_SyncMirrors ==
    (pc = "done" /\ Mode = "sync") =>
        /\ Ids(coll) = ValidKeys
        /\ summary["removed"] = Cardinality(Ids(startColl) \ ValidKeys)

Wit_C1_SyncMirrors ==
    /\ pc = "done" /\ Mode = "sync"
    /\ summary["removed"] >= 1
    /\ InvalidIdx(Len(R)) # {}
    /\ Cardinality(ValidIdx(Len(R))) > Cardinality(ValidKeys)
    /\ ValidKeys \ Ids(startColl) # {}

(* C2: after a rebuild run over a non-empty index file has completed, the  *)
(* collection's key set is exactly the set of keys of the records with a   *)
(* vector and a path, and every document in it was built from a record:   *)
(* nothing of the prior contents survives.                                 *)
Thm_C2_RebuildRepopulates ==
    (pc = "done" /\ Mode = "rebuild") =>
        /\ Ids(coll) = ValidKeys
        /\ \A k \in Ids(coll) : coll[k] = LastDoc(k)

Wit_C2_RebuildRepopulates ==
    /\ pc = "done" /\ Mode = "rebuild"
    /\ Ids(startColl) \ ValidKeys # {}
    /\ Ids(startColl) \cap ValidKeys # {}
    /\ InvalidIdx(Len(R)) # {}

(* C3 as stated: the second of two upsert runs over the same index file    *)
(* leaves the collection as the first left it and reports zero inserts,    *)
(* N updates (N the record count) and zero skips.                          *)
Orig_C3_UpsertIdempotent ==
    (pc = "done" /\ run = "second" /\ Mode = "upsert") =>
        /\ coll = prev.coll
        /\ summary["inserted"] = 0
        /\ summary["updated"] = Len(R)
        /\ summary["skipped"] = 0

(* C3 as amended: the second of two upsert runs over the same index file   *)
(* leaves the collection as the first left it and reports zero inserts, as *)
(* many updates as there are valid records and as many skips as there are  *)
(* invalid records.                                                        *)
Thm_C3_UpsertIdempotent ==
    (pc = "done" /\ run = "second" /\ Mode = "upsert") =>
        /\ prev.pc = "done"
        /\ coll = prev.coll
        /\ summary["inserted"] = 0
        /\ summary["updated"] = Cardinality(ValidIdx(Len(R)))
        /\ summary["skipped"] = Cardinality(InvalidIdx(Len(R)))

Wit_C3_UpsertIdempotent ==
    /\ pc = "done" /\ run = "second" /\ Mode = "upsert"
    /\ InvalidIdx(Len(R)) # {}
    /\ Cardinality(ValidIdx(Len(R))) > Cardinality(ValidKeys)
    /\ prev.summary["inserted"] >= 1

(* C4: in insert-only mode every document present when the run began keeps *)
(* its vector and metadata, and a valid record whose key was present       *)
(* counts as skipped, never as inserted.                                   *)
Thm_C4_InsertOnlyKeeps ==
    Mode = "insert-only" =>
        /\ \A k \in Ids(startColl) : k \in Ids(coll) /\ coll[k] = startColl[k]
        /\ InLoopOrAfter =>
            /\ skipped_count =
                 Cardinality(InvalidIdx(Processed)) +
                 Cardinality({j \in ValidIdx(Processed) : KeyAt(j) \in Ids(startColl)})
            /\ inserted_count =
                 Cardinality({j \in ValidIdx(Processed) : KeyAt(j) \notin Ids(startColl)})
        /\ pc = "done" =>
            /\ summary["skipped"] = skipped_count
            /\ summary["inserted"] = inserted_count

Wit_C4_InsertOnlyKeeps ==
    /\ pc = "done" /\ Mode = "insert-only"
    /\ \E j \in ValidIdx(Len(R)) :
          KeyAt(j) \in Ids(startColl) /\ LastDoc(KeyAt(j)) # startColl[KeyAt(j)]
    /\ summary["inserted"] >= 1

(* C5: in update-only mode the collection's key set never changes, a valid *)
(* record whose key is absent counts as skipped, and only the records      *)
(* counted as updated are written.                                         *)
Thm_C5_UpdateOnlyNeverCreates ==
    Mode = "update-only" =>
        /\ Ids(coll) = Ids(startColl)
        /\ InLoopOrAfter =>
            /\ skipped_count =
                 Cardinality(InvalidIdx(Processed)) +
                 Cardinality({j \in ValidIdx(Processed) : KeyAt(j) \notin Ids(startColl)})
            /\ updated_count =
                 Cardinality({j \in ValidIdx(Processed) : KeyAt(j) \in Ids(startColl)})
            /\ Cardinality(Pos("index")) = updated_count
        /\ pc = "done" => summary["skipped"] = skipped_count

Wit_C5_UpdateOnlyNeverCreates ==
    /\ pc = "done" /\ Mode = "update-only"
    /\ ValidKeys \ Ids(startColl) # {}
    /\ summary["updated"] >= 1
    /\ summary["skipped"] >= 1

(* C6: in every mode a record without a vector or without metadata.path is *)
(* never written and is counted in skipped only; at the end of an upsert   *)
(* run inserted + updated + skipped is the number of input records and     *)
(* skipped is at least the number of invalid records.                      *)
Thm_C6_ValidationFilter ==
    /\ InLoopOrAfter =>
        /\ Cardinality(Pos("index")) <= Cardinality(ValidIdx(Processed))
        /\ inserted_count + updated_count <= Cardinality(ValidIdx(Processed))
        /\ skipped_count >= Cardinality(InvalidIdx(Processed))
        /\ Ids(coll) \subseteq Ids(startColl) \cup ValidKeys
        /\ \A k \in Ids(coll) \ ValidKeys : coll[k] = startColl[k]
    /\ (pc = "done" /\ Mode = "upsert") =>
        /\ summary["inserted"] + summary["updated"] + summary["skipped"] = Len(R)
        /\ summary["skipped"] >= Cardinality(InvalidIdx(Len(R)))

Wit_C6_ValidationFilter ==
    /\ pc = "done" /\ Mode = "upsert"
    /\ Cardinality(InvalidIdx(Len(R))) >= 2
    /\ \E j \in InvalidIdx(Len(R)) : "vector" \notin DOMAIN R[j]
    /\ \E j \in InvalidIdx(Len(R)) : "metadata" \notin DOMAIN R[j]
    /\ ValidIdx(Len(R)) # {}

\* the value the precedence rule gives setting k
ByPrecedence(k) ==
    IF k \in DOMAIN argv THEN argv[k]
    ELSE IF "config" \in DOMAIN argv /\ yaml_disk.status = "ok"
            /\ k \in DOMAIN yaml_disk.content
         THEN yaml_disk.content[k]
         ELSE Get(DEFAULT_CONFIG, k, None)

(* C7 as stated: every setting run_import receives has the value given on  *)
(* the command line if the flag was given, else the value of the YAML      *)
(* config if it has one, else the built-in default.                        *)
Claim_C7_Precedence ==
    pc = "start" => \A k \in Settings : Get(config, k, None) = ByPrecedence(k)

(* C8: in every mode a fatal condition (index_file or db_file missing from *)
(* the configuration; an empty, unreadable or unsupported index file) ends *)
(* the run with no drop, index or compact call and the collection as it    *)
(* was.                                                                    *)
Thm_C8_FatalBeforeMutation ==
    /\ (FatalInput \/ pc = "aborted") =>
        /\ Pos("drop") \cup Pos("index") \cup Pos("compact") = {}
        /\ coll = startColl
    /\ pc = "aborted" => FatalInput
    /\ pc = "done" => ~FatalInput

Wit_C8_FatalBeforeMutation ==
    /\ pc = "aborted" /\ Mode = "rebuild"
    /\ Ids(coll) # {}
    /\ ConfigUsable(config)
    /\ disk.status = "corrupt"
    /\ R # << >>

Claim_C10_SyncCounts ==
    (pc = "done" /\ Mode = "sync") =>
        /\ summary["inserted"] =
             Cardinality({j \in ValidIdx(Len(R)) : KeyAt(j) \notin Ids(startColl)})
        /\ summary["updated"] =
             Cardinality({j \in ValidIdx(Len(R)) : KeyAt(j) \in Ids(startColl)})
        /\ summary["inserted"] = inserted_count
        /\ summary["updated"] = updated_count

=============================================================================
